---- MODULE Spec2Model ----
(***************************************************************************)
(* A model of stitcher/filematrix.py: the FileMatrix tile catalog.         *)
(*                                                                         *)
(*   load_dir         walks a directory tree, parses each candidate name,  *)
(*                    reads its metadata and builds the sorted table;      *)
(*   slices           connected components of the enclosure graph;         *)
(*   tiles_along_dir  the coroutine that yields the groups of each slice;  *)
(*   tiles_along_X/Y  the two drivers of that coroutine;                   *)
(*   full_height      the maximum column extent.                           *)
(*                                                                         *)
(* Three specifications share the variables:                               *)
(*   SpecLoad    the construction of one catalog, one os.walk step at a    *)
(*               time;                                                     *)
(*   Spec        the queries on a constructed catalog, whose initial       *)
(*               states are the tables load_dir builds from up to MaxTiles *)
(*               tiles;                                                    *)
(*   SpecSlices  the slices query alone, on the tables load_dir builds     *)
(*               from up to MaxStack tiles that share one X.               *)
(***************************************************************************)
EXTENDS Integers, Sequences, FiniteSets, TLC

\* The number of tiles of a catalog in Spec.
MaxTiles == 2
\* The number of tiles of a catalog in SpecSlices.
MaxStack == 3
\* The number of paths (directories and files) one walk of SpecLoad meets.
MaxPaths == 3
\* flist holds seven fields per tile (filematrix.py, lines 99-101).
Stride == 7

\* Stage coordinates, first frames and frame counts of the tiles tried.
XValues == 0..1
YValues == 0..1
ZValues == 0..1
FrameCounts == 1..2
\* Every tile of one acquisition has the same pixel size.
PixelSizes == {2}

VARIABLES
    pc,                 \* "walking" | "loaded" | "ValueError": where load_dir is
    visited,            \* the (root, dirs, files) entries os.walk has yielded
    flist,              \* load_dir's flat field list
    data_frame,         \* self.data_frame: the rows of the table, in table order
    ascending_tiles_X,  \* self._ascending_tiles_X
    ascending_tiles_Y,  \* self._ascending_tiles_Y
    gen,                \* the tiles_along_X / tiles_along_Y generator being consumed
    out,                \* what that generator has yielded so far
    status,             \* "idle" | "running" | the exception that ended the generator
    slices_result,      \* the outcome of slices, when it was the latest query
    fh                  \* the outcome of full_height, when it was the latest query

vars == <<pc, visited, flist, data_frame, ascending_tiles_X,
          ascending_tiles_Y, gen, out, status, slices_result, fh>>

----------------------------------------------------------------------------
(* Sequences.                                                              *)

Range(s) == {s[i] : i \in DOMAIN s}

SeqsUpTo(S, n) == UNION {[1..k -> S] : k \in 0..n}

Reverse(s) == [i \in DOMAIN s |-> s[Len(s) + 1 - i]]

RECURSIVE Concat(_)
Concat(ss) == IF ss = <<>> THEN <<>> ELSE Head(ss) \o Concat(Tail(ss))

\* The bijections from 1..Cardinality(S) onto S: the orders S can be listed in.
Orderings(S) ==
    {f \in [1..Cardinality(S) -> S] : \A i, j \in DOMAIN f : f[i] = f[j] => i = j}

RECURSIVE SortedInts(_)
SortedInts(S) ==
    IF S = {} THEN <<>>
    ELSE LET m == CHOOSE x \in S : \A y \in S : x <= y
         IN  <<m>> \o SortedInts(S \ {m})

Max(S) == CHOOSE x \in S : \A y \in S : y <= x

----------------------------------------------------------------------------
(* Candidates: the paths load_dir tries.  A name is an opaque path; what   *)
(* the two regular expressions of parse_file_name find in its base name is *)
(* carried as coords (<<>> when neither matches), and what InputFile reads *)
(* from it as meta = <<nfrms, ysize, xsize>> (<<>> when it raises).         *)

NoMatch == <<>>
Unreadable == <<>>

Coords == {<<x, y, z>> : x \in XValues, y \in YValues, z \in ZValues}
Metas == {<<n, h, w>> : n \in FrameCounts, h \in PixelSizes, w \in PixelSizes}

Outcomes == {[coords |-> c, meta |-> m] : c \in Coords, m \in Metas}
                \cup {[coords |-> NoMatch, meta |-> CHOOSE m \in Metas : TRUE],
                      [coords |-> CHOOSE c \in Coords : TRUE, meta |-> Unreadable]}

GoodOutcomes == {o \in Outcomes : o.coords # NoMatch /\ o.meta # Unreadable}

Candidate(name, o) == [name |-> name, coords |-> o.coords, meta |-> o.meta]

IsTile(c) == c.coords # NoMatch /\ c.meta # Unreadable

\* parse_file_name: the three coordinates, or ValueError.
parse_file_name(c) ==
    IF c.coords = NoMatch
    THEN [exc |-> "ValueError", fields |-> <<>>]
    ELSE [exc |-> "", fields |-> c.coords]

\* InputFile(name): the three sizes read inside the with block, or RuntimeError.
InputFile(c) ==
    IF c.meta = Unreadable
    THEN [exc |-> "RuntimeError", fields |-> <<>>]
    ELSE [exc |-> "", fields |-> c.meta]

\* A slip: the fields go to flist as they are found, so a candidate whose
\* metadata cannot be read leaves its coordinates behind.
parse_and_append_eager(c, fl) ==
    LET parsed == parse_file_name(c)
        read == InputFile(c)
    IN  IF parsed.exc # "" THEN fl
        ELSE IF read.exc # "" THEN fl \o parsed.fields
        ELSE fl \o parsed.fields \o read.fields \o <<c.name>>

\* parse_and_append: the fields are collected in the local list `fields` and
\* reach flist only when nothing was raised; both exceptions are caught here.
parse_and_append(c, fl) ==
    LET parsed == parse_file_name(c)
        read == InputFile(c)
    IN  IF parsed.exc # "" THEN fl
        ELSE IF read.exc # "" THEN fl
        ELSE LET fields == parsed.fields \o read.fields
             IN  (fl \o fields) \o <<c.name>>

----------------------------------------------------------------------------
(* The table.                                                              *)

\* flist[k::7]
StrideSlice(fl, k) ==
    [i \in 1..((Len(fl) - k + Stride - 1) \div Stride) |-> fl[k + 1 + Stride * (i - 1)]]

ColumnNames == <<"X", "Y", "Z", "nfrms", "ysize", "xsize", "filename">>

\* The dict of columns of lines 99-101.
Columns(fl) == [k \in 1..Len(ColumnNames) |-> StrideSlice(fl, k - 1)]

\* pd.DataFrame(data) refuses columns of different lengths.
SameLength(cols) == \A i, j \in DOMAIN cols : Len(cols[i]) = Len(cols[j])

\* The rows of pd.DataFrame(data), labelled 0, 1, ... in flist order.
FrameRows(cols) ==
    [i \in 1..Len(cols[1]) |->
        [index |-> i - 1, X |-> cols[1][i], Y |-> cols[2][i], Z |-> cols[3][i],
         nfrms |-> cols[4][i], ysize |-> cols[5][i], xsize |-> cols[6][i],
         filename |-> cols[7][i]]]

\* A slip: the flag gives the direction of the first key only, the other
\* keys always ascend.
RECURSIVE PrecedesPrimaryOnly(_, _, _, _)
PrecedesPrimaryOnly(a, b, keys, asc) ==
    IF keys = <<>> THEN FALSE
    ELSE LET k == Head(keys)
         IN  IF a[k] = b[k] THEN PrecedesPrimaryOnly(a, b, Tail(keys), TRUE)
             ELSE IF asc THEN a[k] < b[k] ELSE a[k] > b[k]

\* a comes strictly before b in the order of sort_values(keys, ascending=asc):
\* the one flag gives the direction of every key.
RECURSIVE Precedes(_, _, _, _)
Precedes(a, b, keys, asc) ==
    IF keys = <<>> THEN FALSE
    ELSE LET k == Head(keys)
         IN  IF a[k] = b[k] THEN Precedes(a, b, Tail(keys), asc)
             ELSE IF asc THEN a[k] < b[k] ELSE a[k] > b[k]

\* r put into the sorted rows after every row it does not precede.
InsertRow(sorted, r, keys, asc) ==
    LET before == {i \in DOMAIN sorted : ~Precedes(r, sorted[i], keys, asc)}
        n == IF before = {} THEN 0 ELSE Max(before)
    IN  SubSeq(sorted, 1, n) \o <<r>> \o SubSeq(sorted, n + 1, Len(sorted))

\* DataFrame.sort_values(keys, ascending=asc): a stable sort.
RECURSIVE sort_values(_, _, _)
sort_values(rows, keys, asc) ==
    IF rows = <<>> THEN <<>>
    ELSE InsertRow(sort_values(SubSeq(rows, 1, Len(rows) - 1), keys, asc),
                   rows[Len(rows)], keys, asc)

WithZEnd(r) ==
    [index |-> r.index, X |-> r.X, Y |-> r.Y, Z |-> r.Z, nfrms |-> r.nfrms,
     ysize |-> r.ysize, xsize |-> r.xsize, filename |-> r.filename,
     Z_end |-> r.Z + r.nfrms]

\* Lines 99-106: the table of flist, sorted by (Z, Y, X), with Z_end.
BuildFrame(fl) ==
    LET df == sort_values(FrameRows(Columns(fl)), <<"Z", "Y", "X">>, TRUE)
    IN  [i \in DOMAIN df |-> WithZEnd(df[i])]

Indexes(rows) == {rows[i].index : i \in DOMAIN rows}

RowOf(df, ix) == df[CHOOSE i \in DOMAIN df : df[i].index = ix]

----------------------------------------------------------------------------
(* slices.                                                                 *)

\* Lines 123-126: the rows whose depth range encloses row's, in table order.
EnclosingView(df, row) ==
    SelectSeq(df, LAMBDA u : u.Z <= row.Z /\ u.Z_end >= row.Z_end)

\* A slip: only the edge from the first to the last index is added.
ViewEdgesEndsOnly(view) ==
    {{view[1].index, view[Len(view)].index}}

\* Lines 127-129: an edge between consecutive indexes of the view, and one
\* from its first to its last.  An edge is the set of its ends.
ViewEdges(view) ==
    {{view[i].index, view[i + 1].index} : i \in 1..(Len(view) - 1)}
        \cup {{view[1].index, view[Len(view)].index}}

\* Lines 118-129: G, its nodes in the order iterrows adds them.
Graph(df) ==
    [nodes |-> [i \in DOMAIN df |-> df[i].index],
     edges |-> UNION {ViewEdges(EnclosingView(df, df[i])) : i \in DOMAIN df}]

\* The nodes joined to S by a path of G.
RECURSIVE Reach(_, _)
Reach(edges, S) ==
    LET T == S \cup UNION {e \in edges : e \cap S # {}}
    IN  IF T = S THEN S ELSE Reach(edges, T)

\* nx.connected_components: the component of each node not yet seen, the
\* nodes taken in G's order.
RECURSIVE connected_components(_, _, _)
connected_components(nodes, edges, seen) ==
    IF nodes = <<>> THEN <<>>
    ELSE IF Head(nodes) \in seen
         THEN connected_components(Tail(nodes), edges, seen)
         ELSE LET c == Reach(edges, {Head(nodes)})
              IN  <<c>> \o connected_components(Tail(nodes), edges, seen \cup c)

\* The slices property, consumed: the node sets of the components, in order.
Slices(df) ==
    LET G == Graph(df) IN connected_components(G.nodes, G.edges, {})

----------------------------------------------------------------------------
(* tiles_along_dir.                                                        *)

\* What a bare `yield` hands out, and what next() sends in.  A group of
\* groupby is never empty.
None == <<>>

\* data_frame.loc[nodes]: the rows of the labels, in the order of the labels.
Loc(df, nodes) == [i \in DOMAIN nodes |-> RowOf(df, nodes[i])]

\* A slip: groupby(key, sort=False), the groups in the order their keys are met.
RECURSIVE groupby_unsorted(_, _)
groupby_unsorted(rows, key) ==
    IF rows = <<>> THEN <<>>
    ELSE LET k == rows[1][key]
         IN  <<SelectSeq(rows, LAMBDA r : r[key] = k)>>
                 \o groupby_unsorted(SelectSeq(rows, LAMBDA r : r[key] # k), key)

\* DataFrame.groupby(key), iterated: one group per key value, the groups by
\* ascending key, the rows of a group in the order they have in rows.
groupby(rows, key) ==
    LET ks == SortedInts({rows[i][key] : i \in DOMAIN rows})
    IN  [j \in DOMAIN ks |-> SelectSeq(rows, LAMBDA r : r[key] = ks[j])]

\* Lines 166-167 for the slice whose nodes() are `nodes`.
GroupsOf(df, nodes, got) ==
    groupby(sort_values(Loc(df, nodes), got[1], got[2]), got[3])

\* A tiles_along_dir generator that has not run yet.
NewCoroutine == [pc |-> "start", comps |-> <<>>, view |-> <<>>]

Raised(exc) ==
    [g |-> [pc |-> "done", comps |-> <<>>, view |-> <<>>], yielded |-> None, exc |-> exc]

\* s.nodes() as perm lists them.
NodesOf(s, perm) == SelectSeq(perm, LAMBDA n : n \in s)

\* g.send(value), and next(g) as g.send(None): the generator runs to its
\* next yield.  g.comps holds the slices from the current one on.
\*   "start"   not started;
\*   "await"   suspended at `got = yield` (line 165);
\*   "groups"  suspended at `yield group` (line 169);
\*   "done"    returned or raised.
Send(g, value, df, perm) ==
    LET AtSlice(comps) ==
            IF comps = <<>> THEN Raised("StopIteration")
            ELSE [g |-> [pc |-> "await", comps |-> comps, view |-> <<>>],
                  yielded |-> None, exc |-> ""]
    IN  CASE g.pc = "start" -> AtSlice(Slices(df))
          [] g.pc = "await" ->
                IF value = None THEN Raised("TypeError")
                ELSE LET view == GroupsOf(df, NodesOf(Head(g.comps), perm), value)
                     IN  [g |-> [pc |-> "groups", comps |-> g.comps, view |-> Tail(view)],
                          yielded |-> Head(view), exc |-> ""]
          [] g.pc = "groups" ->
                IF g.view # <<>>
                THEN [g |-> [pc |-> "groups", comps |-> g.comps, view |-> Tail(g.view)],
                      yielded |-> Head(g.view), exc |-> ""]
                ELSE AtSlice(Tail(g.comps))
          [] OTHER -> Raised("StopIteration")

----------------------------------------------------------------------------
(* tiles_along_X and tiles_along_Y.                                        *)

\* The tuples of lines 185 and 202.
SentTuple(kind, asc) ==
    IF kind = "X" THEN <<(<<"Z", "X", "Y">>), asc, "Y">>
    ELSE <<(<<"Z", "Y", "X">>), asc, "X">>

NoGen == [kind |-> "none", pc |-> "closed", got |-> None, g |-> NewCoroutine]

NewGen(kind) == [kind |-> kind, pc |-> "new", got |-> None, g |-> NewCoroutine]

Closed(t) == [kind |-> t.kind, pc |-> "closed", got |-> t.got, g |-> Raised("").g]

\* next() on a tiles_along_X / tiles_along_Y generator t.  asc is the flag
\* the property reads when it sends the tuple.  A StopIteration that
\* next(g) raises inside the generator body ends it silently before
\* PEP 479 and becomes a RuntimeError after it (pep479).
\*   "new"         not started;
\*   "delegating"  suspended at the yield of line 185 / 202 or in `yield from g`;
\*   "closed"      returned or raised.
Next_(t, asc, df, perm, pep479) ==
    CASE t.pc = "new" ->
            LET r1 == Send(t.g, None, df, perm)
                got == SentTuple(t.kind, asc)
                r2 == Send(r1.g, got, df, perm)
            IN  IF r1.exc # ""
                THEN [t |-> Closed(t), yielded |-> None,
                      exc |-> IF pep479 THEN "RuntimeError" ELSE "StopIteration"]
                ELSE [t |-> [kind |-> t.kind, pc |-> "delegating", got |-> got, g |-> r2.g],
                      yielded |-> r2.yielded, exc |-> ""]
      [] t.pc = "delegating" ->
            LET r == Send(t.g, None, df, perm)
            IN  IF r.exc # ""
                THEN [t |-> Closed(t), yielded |-> None, exc |-> r.exc]
                ELSE [t |-> [kind |-> t.kind, pc |-> "delegating", got |-> t.got, g |-> r.g],
                      yielded |-> r.yielded, exc |-> ""]
      [] OTHER -> [t |-> Closed(t), yielded |-> None, exc |-> "StopIteration"]

----------------------------------------------------------------------------
(* full_height.                                                            *)

HasColumn(group, col) == col \in DOMAIN group[1]

RECURSIVE Sum(_)
Sum(s) == IF s = <<>> THEN 0 ELSE Head(s) + Sum(Tail(s))

\* Lines 212-216 with the positions read from column col.  diff() of the
\* first row is NaN, which rint takes to 0; the other differences are whole.
ColumnExtent(group, col) ==
    LET ysize == [i \in DOMAIN group |-> group[i].ysize]
        diff == [i \in DOMAIN group |->
                    IF i = 1 THEN 0 ELSE group[i][col] - group[i - 1][col]]
        overlap_sum == Sum([i \in DOMAIN group |-> ysize[i] - diff[i]]) - ysize[1]
    IN  Sum(ysize) - overlap_sum + group[1][col]

NotCalled == [state |-> "none", value |-> 0, exc |-> ""]
Returns(v) == [state |-> "returned", value |-> v, exc |-> ""]
Raises(exc) == [state |-> "raised", value |-> 0, exc |-> exc]

\* max(x for x in gen()): gen() takes the groups of tiles_along_Y one by one
\* and reads the columns 'ysize' and 'Ys' of each; t is the tiles_along_Y
\* generator, vals what gen() has yielded.
RECURSIVE FullHeightLoop(_, _, _, _, _, _)
FullHeightLoop(t, vals, asc, df, perm, pep479) ==
    LET r == Next_(t, asc, df, perm, pep479)
    IN  IF r.exc = "StopIteration"
        THEN IF vals = <<>> THEN Raises("ValueError") ELSE Returns(Max(Range(vals)))
        ELSE IF r.exc # "" THEN Raises(r.exc)
        ELSE IF r.yielded = None THEN Raises("TypeError")
        ELSE IF ~HasColumn(r.yielded, "Ys") THEN Raises("KeyError")
        ELSE FullHeightLoop(r.t, Append(vals, ColumnExtent(r.yielded, "Ys")),
                            asc, df, perm, pep479)

full_height(asc, df, perm, pep479) ==
    FullHeightLoop(NewGen("Y"), <<>>, asc, df, perm, pep479)

----------------------------------------------------------------------------
(* load_dir.                                                               *)

\* One (root, dirs, files) of os.walk: base says whether os.path.basename(root)
\* is non-empty (it is empty only for a top directory given with a trailing
\* separator), root and files are the candidates of the paths.
Entry(base, root, files) == [base |-> base, root |-> root, files |-> files]

RECURSIVE TryFiles(_, _)
TryFiles(files, fl) ==
    IF files = <<>> THEN fl
    ELSE TryFiles(Tail(files), parse_and_append(Head(files), fl))

\* Lines 84-96, one turn of the loop: parse_and_append catches what it
\* raises, so the `continue` of line 87 follows every call of line 86.
VisitEntry(e, fl) ==
    IF e.base THEN parse_and_append(e.root, fl)
    ELSE TryFiles(e.files, fl)

\* The paths of the entries visited.
PathCount(vs) == Sum([i \in DOMAIN vs |-> 1 + Len(vs[i].files)])

\* What the paths of a walk turn out to be: a tile of the first column, a
\* name that does not parse, or a file whose metadata cannot be read.
WalkOutcomes ==
    {o \in Outcomes : ~(o.coords # NoMatch /\ \E x \in XValues : x < o.coords[1])}

\* The entries os.walk can yield next when n paths were met before: their
\* paths are named n + 1, n + 2, ...  Only the first root can be "dir/".
Entries(n, first) ==
    LET files(fo) == [i \in DOMAIN fo |-> Candidate(n + 1 + i, fo[i])]
        listings == SeqsUpTo(WalkOutcomes, MaxPaths - n - 1)
    IN  {Entry(TRUE, Candidate(n + 1, ro), files(fo)) :
            ro \in WalkOutcomes, fo \in listings}
          \cup (IF first
                THEN {Entry(FALSE, Candidate(n + 1, CHOOSE o \in Outcomes : TRUE), files(fo)) :
                        fo \in listings}
                ELSE {})

Walk ==
    /\ pc = "walking"
    /\ PathCount(visited) < MaxPaths
    /\ \E e \in Entries(PathCount(visited), visited = <<>>) :
          /\ visited' = Append(visited, e)
          /\ flist' = VisitEntry(e, flist)
    /\ UNCHANGED <<pc, data_frame, ascending_tiles_X, ascending_tiles_Y, gen, out,
                   status, slices_result, fh>>

\* Lines 99-106 once os.walk is exhausted.
Finish ==
    /\ pc = "walking"
    /\ IF SameLength(Columns(flist))
       THEN pc' = "loaded" /\ data_frame' = BuildFrame(flist)
       ELSE pc' = "ValueError" /\ data_frame' = <<>>
    /\ UNCHANGED <<visited, flist, ascending_tiles_X, ascending_tiles_Y, gen, out,
                   status, slices_result, fh>>

NoSlices == [called |-> FALSE, comps |-> <<>>]

\* __init__ up to the call of load_dir.
InitLoad ==
    /\ pc = "walking"
    /\ visited = <<>>
    /\ flist = <<>>
    /\ data_frame = <<>>
    /\ ascending_tiles_X = TRUE
    /\ ascending_tiles_Y = TRUE
    /\ gen = NoGen
    /\ out = <<>>
    /\ status = "idle"
    /\ slices_result = NoSlices
    /\ fh = NotCalled

NextLoad == Walk \/ Finish

SpecLoad == InitLoad /\ [][NextLoad]_vars

----------------------------------------------------------------------------
(* The queries on a constructed catalog.                                   *)

\* A FileMatrix built from a directory given as "dir/" that holds the files
\* fo of tiles.
Constructed(fo) ==
        LET e == Entry(FALSE, Candidate(1, CHOOSE o \in Outcomes : TRUE),
                       [i \in DOMAIN fo |-> Candidate(1 + i, fo[i])])
        IN  /\ pc = "loaded"
            /\ visited = <<e>>
            /\ flist = VisitEntry(e, <<>>)
            /\ data_frame = BuildFrame(flist)
            /\ ascending_tiles_X = TRUE
            /\ ascending_tiles_Y = TRUE
            /\ gen = NoGen
            /\ out = <<>>
            /\ status = "idle"
            /\ slices_result = NoSlices
            /\ fh = NotCalled

\* The setters of lines 137-147.
SetAscendingX ==
    /\ pc = "loaded"
    /\ \E value \in BOOLEAN : ascending_tiles_X' = value
    /\ UNCHANGED <<pc, visited, flist, data_frame, ascending_tiles_Y, gen, out,
                   status, slices_result, fh>>

SetAscendingY ==
    /\ pc = "loaded"
    /\ \E value \in BOOLEAN : ascending_tiles_Y' = value
    /\ UNCHANGED <<pc, visited, flist, data_frame, ascending_tiles_X, gen, out,
                   status, slices_result, fh>>

\* list(fm.slices)
CallSlices ==
    /\ pc = "loaded"
    /\ slices_result' = [called |-> TRUE, comps |-> Slices(data_frame)]
    /\ gen' = NoGen /\ out' = <<>> /\ status' = "idle" /\ fh' = NotCalled
    /\ UNCHANGED <<pc, visited, flist, data_frame, ascending_tiles_X, ascending_tiles_Y>>

\* fm.tiles_along_X or fm.tiles_along_Y: a new generator, nothing of it run.
Iterate ==
    /\ pc = "loaded"
    /\ \E kind \in {"X", "Y"} : gen' = NewGen(kind)
    /\ out' = <<>> /\ status' = "running"
    /\ slices_result' = NoSlices /\ fh' = NotCalled
    /\ UNCHANGED <<pc, visited, flist, data_frame, ascending_tiles_X, ascending_tiles_Y>>

\* The listings of nodes() that a next() on t can meet.  Only the first
\* next() builds the groups of a slice, the first one; networkx fixes no
\* order of its nodes.
NodeOrders(t, df) ==
    IF t.pc = "new" /\ df # <<>> THEN Orderings(Head(Slices(df))) ELSE {<<>>}

\* next() on the generator being consumed.
NextItem ==
    /\ pc = "loaded"
    /\ status = "running"
    /\ \E perm \in NodeOrders(gen, data_frame), pep479 \in BOOLEAN :
          LET asc == IF gen.kind = "X" THEN ascending_tiles_X ELSE ascending_tiles_Y
              r == Next_(gen, asc, data_frame, perm, pep479)
          IN  /\ gen' = r.t
              /\ out' = IF r.exc = "" THEN Append(out, r.yielded) ELSE out
              /\ status' = IF r.exc = "" THEN "running" ELSE r.exc
    /\ UNCHANGED <<pc, visited, flist, data_frame, ascending_tiles_X, ascending_tiles_Y,
                   slices_result, fh>>

\* fm.full_height
CallFullHeight ==
    /\ pc = "loaded"
    /\ \E perm \in NodeOrders(NewGen("Y"), data_frame), pep479 \in BOOLEAN :
          fh' = full_height(ascending_tiles_Y, data_frame, perm, pep479)
    /\ gen' = NoGen /\ out' = <<>> /\ status' = "idle" /\ slices_result' = NoSlices
    /\ UNCHANGED <<pc, visited, flist, data_frame, ascending_tiles_X, ascending_tiles_Y>>

Init == \E fo \in SeqsUpTo(GoodOutcomes, MaxTiles) : Constructed(fo)

Next ==
    \/ SetAscendingX
    \/ SetAscendingY
    \/ CallSlices
    \/ Iterate
    \/ NextItem
    \/ CallFullHeight

Spec == Init /\ [][Next]_vars

\* The tiles of one column of the stage: they share the least X.
StackOutcomes == {o \in GoodOutcomes : \A x \in XValues : o.coords[1] <= x}

InitSlices == \E fo \in SeqsUpTo(StackOutcomes, MaxStack) : Constructed(fo)

NextSlices == CallSlices

SpecSlices == InitSlices /\ [][NextSlices]_vars

----------------------------------------------------------------------------
(* What the properties below speak of.                                     *)

\* The generator being consumed has returned or raised.
Finished == status \notin {"idle", "running"}

\* The tuple has been sent: the groups of the first slice are built.
Sent == gen.kind # "none" /\ gen.got # None

\* The tiles of each item of a yielded sequence; None has no tile.
MembersSeq(items) == [i \in DOMAIN items |-> Indexes(items[i])]

\* Everything a generator t yields when it is consumed to its end, nodes()
\* listed by ascending label.
RECURSIVE Drain(_, _, _)
Drain(t, asc, df) ==
    LET perm == IF df = <<>> THEN <<>> ELSE SortedInts(Head(Slices(df)))
        r == Next_(t, asc, df, perm, FALSE)
    IN  IF r.exc # "" THEN <<>> ELSE <<r.yielded>> \o Drain(r.t, asc, df)

\* The groups of every slice in turn, for the tuple got.
GroupsOfAllSlices(df, got) ==
    LET comps == Slices(df)
    IN  Concat([k \in DOMAIN comps |-> GroupsOf(df, SortedInts(comps[k]), got)])

\* The rows of a group follow each other by keys, every key ascending (asc)
\* or every key descending.
KeysOf(r, keys) == [k \in DOMAIN keys |-> r[keys[k]]]

LexLess(a, b) ==
    \E k \in DOMAIN a : a[k] < b[k] /\ \A j \in 1..(k - 1) : a[j] = b[j]

OrderedByAllKeys(group, keys, asc) ==
    \A i \in 1..(Len(group) - 1) :
        IF asc THEN ~LexLess(KeysOf(group[i + 1], keys), KeysOf(group[i], keys))
        ELSE ~LexLess(KeysOf(group[i], keys), KeysOf(group[i + 1], keys))

\* The rows of a group follow each other with the first key descending and
\* the other keys ascending.
OrderedPrimaryDescending(group, keys) ==
    \A i \in 1..(Len(group) - 1) :
        LET a == KeysOf(group[i], keys)
            b == KeysOf(group[i + 1], keys)
        IN  ~(b[1] > a[1] \/ (b[1] = a[1] /\ LexLess(Tail(b), Tail(a))))

\* The candidates parse_and_append was called on, in order.
Tried(vs) == Concat([i \in DOMAIN vs |-> IF vs[i].base THEN <<vs[i].root>> ELSE vs[i].files])

\* The record of a candidate that parsed and whose metadata was read.
RecordOf(c, ix) ==
    [index |-> ix, X |-> c.coords[1], Y |-> c.coords[2], Z |-> c.coords[3],
     nfrms |-> c.meta[1], ysize |-> c.meta[2], xsize |-> c.meta[3],
     filename |-> c.name, Z_end |-> c.coords[3] + c.meta[1]]

\* Two rows have a frame in common.
ShareFrame(a, b) ==
    (IF a.Z > b.Z THEN a.Z ELSE b.Z) < (IF a.Z_end < b.Z_end THEN a.Z_end ELSE b.Z_end)

\* The rows of df listed in the order p of their positions.
Permuted(df, p) == [i \in DOMAIN p |-> df[p[i]]]

----------------------------------------------------------------------------
(* tiles_along_X and tiles_along_Y, consumed (Spec).                       *)

\* C1 (as claimed): once tiles_along_X or tiles_along_Y of a catalog with
\* tiles has been consumed to its end, it has ended normally and has yielded
\* exactly the groups of every slice in turn, built with the sent tuple; no
\* yielded element is None.
C1_YieldsGroupsOfEverySlice ==
    (Finished /\ data_frame # <<>>) =>
        /\ status = "StopIteration"
        /\ \A i \in DOMAIN out : out[i] # None
        /\ MembersSeq(out) = MembersSeq(GroupsOfAllSlices(data_frame, gen.got))

\* C2 (as claimed): once tiles_along_X or tiles_along_Y has been consumed to
\* its end, every tile of every slice is in exactly one yielded group, a
\* group with a tile of a slice holds tiles of that slice only, and the
\* tiles of a group share the value of the grouping key.
C2_GroupsPartitionEverySlice ==
    (Finished /\ data_frame # <<>>) =>
        /\ \A c \in Range(Slices(data_frame)) :
              /\ \A n \in c : Cardinality({i \in DOMAIN out : n \in Indexes(out[i])}) = 1
              /\ \A i \in DOMAIN out :
                    Indexes(out[i]) \cap c # {} => Indexes(out[i]) \subseteq c
        /\ \A i \in DOMAIN out : \A a, b \in Range(out[i]) : a[gen.got[3]] = b[gen.got[3]]

C4_FullHeightIsLargestColumnExtent ==
    (fh.state # "none" /\ data_frame # <<>>) =>
        /\ fh.state = "returned"
        /\ LET groups == SelectSeq(Drain(NewGen("Y"), ascending_tiles_Y, data_frame),
                                   LAMBDA g : g # None)
           IN  fh.value = Max({ColumnExtent(groups[i], "Y") : i \in DOMAIN groups})

\* C5 (as claimed): on a catalog without tiles slices, tiles_along_X,
\* tiles_along_Y and full_height end without an exception and with nothing.
C5_EmptyCatalogQueriesReturnEmpty ==
    data_frame = <<>> =>
        /\ slices_result.comps = <<>>
        /\ status \in {"idle", "running", "StopIteration"}
        /\ out = <<>>
        /\ fh.state # "raised"

\* C10 (as claimed): with the flag False the tiles of every yielded group
\* follow each other by the first sort key (Z) descending and by the second
\* and third keys ascending.
C10_OnlyFirstKeyDescends ==
    (Sent /\ gen.got[2] = FALSE) =>
        \A i \in DOMAIN out : OrderedPrimaryDescending(out[i], gen.got[1])

\* C10 (amended): the flag gives the direction of all three sort keys: the
\* tiles of every yielded group follow each other by (Z, X, Y) for
\* tiles_along_X, by (Z, Y, X) for tiles_along_Y, every key ascending with
\* the flag True and every key descending with the flag False.
C10_FlagDirectsEveryKey ==
    Sent => \A i \in DOMAIN out : OrderedByAllKeys(out[i], gen.got[1], gen.got[2])

\* C10 (witness): a group yielded with the flag False holds two tiles of
\* one Z whose second sort keys differ.
C10_Witness ==
    /\ Sent /\ gen.got[2] = FALSE
    /\ \E i \in DOMAIN out : \E j \in 1..(Len(out[i]) - 1) :
          /\ out[i][j].Z = out[i][j + 1].Z
          /\ out[i][j][gen.got[1][2]] # out[i][j + 1][gen.got[1][2]]

----------------------------------------------------------------------------
(* load_dir (SpecLoad).                                                    *)

FileNames(df) == {df[i].filename : i \in DOMAIN df}

\* C6 (as claimed): after load, a directory whose base name parsed and
\* whose metadata was read is a tile of the catalog, and every file with a
\* valid name and readable metadata directly inside any other directory
\* visited is a tile of the catalog.
C6_FilesTriedWhenDirectoryIsNoTile ==
    pc = "loaded" =>
        \A i \in DOMAIN visited :
            LET e == visited[i]
            IN  IF e.base /\ IsTile(e.root)
                THEN e.root.name \in FileNames(data_frame)
                ELSE \A j \in DOMAIN e.files :
                        IsTile(e.files[j]) => e.files[j].name \in FileNames(data_frame)

\* The tiles among the candidates tried, in order.
Successes == SelectSeq(Tried(visited), IsTile)

\* C7: whatever the candidates tried do, flist holds seven fields for each
\* one that succeeded and nothing else, load_dir does not raise, and the
\* row labelled k of the table holds the coordinates, the sizes and the
\* name of the k-th candidate that succeeded.
C7_OneCompleteRecordPerSuccess ==
    /\ Len(flist) = Stride * Len(Successes)
    /\ pc # "ValueError"
    /\ pc = "loaded" =>
          /\ Indexes(data_frame) = {k - 1 : k \in DOMAIN Successes}
          /\ Len(data_frame) = Len(Successes)
          /\ \A k \in DOMAIN Successes :
                RowOf(data_frame, k - 1) = RecordOf(Successes[k], k - 1)

\* C7 (witness): a load has ended after it tried a candidate that
\* succeeded, one whose name does not parse and one whose metadata cannot be
\* read, the tile not the first of them.
C7_Witness ==
    /\ pc = "loaded"
    /\ \E i, j, k \in DOMAIN Tried(visited) :
          /\ Tried(visited)[i].coords = NoMatch
          /\ Tried(visited)[j].coords # NoMatch /\ Tried(visited)[j].meta = Unreadable
          /\ IsTile(Tried(visited)[k]) /\ k > i /\ k > j
    /\ Len(data_frame) = 1

----------------------------------------------------------------------------
(* slices (SpecSlices).                                                    *)

\* C8 (as claimed): two tiles whose depth ranges [Z, Z_end) have a frame in
\* common are in the same slice.
C8_TilesSharingAFrameShareASlice ==
    slices_result.called =>
        \A i, j \in DOMAIN data_frame :
            ShareFrame(data_frame[i], data_frame[j]) =>
                \E k \in DOMAIN slices_result.comps :
                    {data_frame[i].index, data_frame[j].index} \subseteq slices_result.comps[k]

====
